---- MODULE Spec2Model ----
(***************************************************************************)
(* Node-lifecycle adapter of the wallet GUI (src/WalletGui/NodeAdapter.cpp) *)
(*                                                                         *)
(* Three execution contexts are modelled:                                  *)
(*   - the controller (GUI thread) running NodeAdapter::init,              *)
(*     ::initInProcessNode and ::deinit, one source statement group per    *)
(*     step, with the nested QEventLoop draining the queue mainQ;          *)
(*   - the worker (m_nodeInitializerThread) running                        *)
(*     InProcessNodeInitializer::start out of its queue workerQ;           *)
(*   - the node's own thread, which pushes INodeCallback notifications.    *)
(*                                                                         *)
(* Q_ASSERT / Q_CHECK_PTR are modelled as in a build that keeps them: a    *)
(* failed check ends the process (fault = "assert").  An exception that    *)
(* leaves a slot ends the process too (fault = "uncaught").  A call        *)
(* through a pointer to a destroyed node is undefined: the model either    *)
(* ends the process (fault = "ub") or lets the call have no effect.        *)
(*                                                                         *)
(* The Node implementations are not part of NodeAdapter.cpp.  Their        *)
(* contract is: the RPC node's init returns at once; the in-process node's *)
(* init reports through its callback (or throws) and, after a successful   *)
(* report, keeps the calling thread until deinit has been requested.       *)
(***************************************************************************)
EXTENDS Integers, Sequences, FiniteSets, TLC

\* ---- bounds of the model ----
MaxErrCode   == 2      \* error codes the node may report: 1..MaxErrCode
MaxHeight    == 1      \* block heights / peer counts: 0..MaxHeight
MaxCallbacks == 2      \* node callbacks relayed per controller call
TickMs       == 1500   \* granularity of the clock, in milliseconds
MaxReadCallbacks == 1  \* node callbacks followed per call when accessors are called

\* ---- program constants ----
InitTimerInterval     == 3000   \* initTimer.setInterval(3000)
INTERNAL_WALLET_ERROR == 5      \* CryptoNote::error::INTERNAL_WALLET_ERROR

NULL   == "nullptr"
RPC    == "rpc"
INPROC == "inproc"
Kinds  == {RPC, INPROC}

ErrCodes == 1..MaxErrCode
Values   == 0..MaxHeight

\* signals of NodeAdapter seen by its consumers
SigPeer     == "peerCountUpdatedSignal"
SigLocal    == "localBlockchainUpdatedSignal"
SigKnown    == "lastKnownBlockHeightUpdatedSignal"
SigInitDone == "nodeInitCompletedSignal"
CallbackKinds == {SigPeer, SigLocal, SigKnown}

VARIABLES
  ctl,           \* controller: position in init / initInProcessNode / deinit
  m_node,        \* NodeAdapter::m_node: NULL or the kind of node it points to
  node,          \* per kind: "absent" | "constructed" | "inited" | "stopping"
  localH,        \* what the live node reports as last local block height
  knownH,        \* what the live node reports as last known block height
  timerActive,   \* initTimer.isActive()
  elapsed,       \* milliseconds since initTimer.start(), capped
  loopConn,      \* signals the current waitLoop is connected to
  mainQ,         \* queued events of the controller's thread
  threadRunning, \* m_nodeInitializerThread.isRunning()
  quitReq,       \* m_nodeInitializerThread.quit() was called
  workerQ,       \* queued initNodeSignal deliveries for the worker
  wpc,           \* worker: position in InProcessNodeInitializer::start
  notes,         \* signals NodeAdapter emitted during the current call
  cbCount,       \* node callbacks relayed during the current call
  result,        \* what the last finished controller call returned
  gh,            \* history of the current call (observation only)
  fault          \* "none" or why the process ended

vars == <<ctl, m_node, node, localH, knownH, timerActive, elapsed, loopConn,
          mainQ, threadRunning, quitReq, workerQ, wpc, notes, cbCount,
          result, gh, fault>>

NoResult == [op |-> "none", val |-> FALSE]

\* history of one controller call
NoHistory == [ exit     |-> "none",    \* how init's wait loop ended
               early    |-> FALSE,     \* ... with elapsed < InitTimerInterval
               src      |-> "none",    \* ... the signal that ended it
               rpcDel   |-> FALSE,     \* init destroyed the RPC node
               starts   |-> 0,         \* initNodeSignal emitted
               wsig     |-> "none",    \* what the worker emitted for it
               wcode    |-> 0,
               wthrow   |-> FALSE,     \* the node's init threw
               rc       |-> 0,         \* initInProcessNode's waitLoop.exec()
               readOk   |-> 0,         \* height reads made on a live handle
               atCall   |-> NULL,      \* deinit: m_node when called
               runAtCall|-> FALSE,     \* deinit: isRunning() when tested
               path     |-> "none",    \* deinit: "noop" | "direct" | "worker"
               stopCalls|-> 0,         \* deinit: calls of stop on this thread
               waited   |-> FALSE,     \* deinit: entered its wait loop
               gotDeinit|-> FALSE,     \* deinit: left its loop on the signal
               acc      |-> "none",    \* the read accessor called last
               arg      |-> "",        \* ... its argument (convertPaymentId)
               nodeOps  |-> 0,         \* ... node operations it invoked
               returned |-> FALSE,     \* ... it returned to its caller
               retn     |-> 0,         \* ... the number it returned
               rets     |-> "",        \* ... the string it returned
               cbs      |-> <<>> ]     \* the node's callbacks, as <<kind, value>>

\* a queued event of the controller's thread: t = "quit" (QEventLoop::quit),
\* "exit" (QEventLoop::exit(c)) or "relay" (the signal-to-signal connection of
\* nodeInitCompletedSignal); s names the signal that queued it
Ev(t, c, s) == [t |-> t, c |-> c, s |-> s]

\* a signal emitted by NodeAdapter: by = "call" when a controller function
\* emits it itself, "callback" when it relays an INodeCallback call
Note(sig, val, by) == [sig |-> sig, val |-> val, by |-> by]

\* the waitLoop is a local object: its pending queued calls die with it
DropLoopEvents(q) == SelectSeq(q, LAMBDA e : e.t = "relay")

\* delete p
Delete(p) == IF p = NULL THEN node ELSE [node EXCEPT ![p] = "absent"]

Live(p) == p # NULL /\ node[p] # "absent"

Init ==
  /\ ctl = "idle"
  /\ m_node = NULL
  /\ node = [k \in Kinds |-> "absent"]
  /\ localH = 0
  /\ knownH = 0
  /\ timerActive = FALSE
  /\ elapsed = 0
  /\ loopConn = "none"
  /\ mainQ = <<>>
  /\ threadRunning = FALSE
  /\ quitReq = FALSE
  /\ workerQ = 0
  /\ wpc = "idle"
  /\ notes = <<>>
  /\ cbCount = 0
  /\ result = NoResult
  /\ gh = NoHistory
  /\ fault = "none"

\* ---------------------------------------------------------------------
\* NodeAdapter::init
\* ---------------------------------------------------------------------

\* variant: localBlockchainUpdatedSignal is left unconnected
InitQuitSignals_peerOnly == {SigPeer}

\* the signals init connects to waitLoop.quit besides the timer's timeout
InitQuitSignals == {SigPeer, SigLocal}

\* initTimer has run out: its timeout can be delivered
TimerDue == timerActive /\ elapsed >= InitTimerInterval

\* variant: the Q_ASSERT of line 152 is absent
init_begin_noAssert ==
  /\ fault = "none" /\ ctl = "idle"
  /\ result' = NoResult /\ gh' = NoHistory /\ notes' = <<>> /\ cbCount' = 0
  /\ m_node' = RPC
  /\ node' = [node EXCEPT ![RPC] = "constructed"]
  /\ timerActive' = TRUE
  /\ elapsed' = 0
  /\ ctl' = "init_nodeinit"
  /\ fault' = fault
  /\ UNCHANGED <<localH, knownH, loopConn, mainQ, threadRunning, quitReq,
                 workerQ, wpc>>

\* Q_ASSERT(m_node == nullptr); m_node = createRpcNode(...); initTimer.start()
init_begin ==
  /\ fault = "none" /\ ctl = "idle"
  /\ result' = NoResult /\ gh' = NoHistory /\ notes' = <<>> /\ cbCount' = 0
  /\ IF m_node # NULL
       THEN /\ fault' = "assert"
            /\ UNCHANGED <<ctl, m_node, node, timerActive, elapsed>>
       ELSE /\ m_node' = RPC
            /\ node' = [node EXCEPT ![RPC] = "constructed"]
            /\ timerActive' = TRUE
            /\ elapsed' = 0
            /\ ctl' = "init_nodeinit"
            /\ fault' = fault
  /\ UNCHANGED <<localH, knownH, loopConn, mainQ, threadRunning, quitReq,
                 workerQ, wpc>>

\* m_node->init([this](std::error_code _err) { Q_UNUSED(_err); });
init_nodeinit ==
  /\ fault = "none" /\ ctl = "init_nodeinit"
  /\ node' = [node EXCEPT ![m_node] = "inited"]
  /\ ctl' = "init_connect"
  /\ UNCHANGED <<m_node, localH, knownH, timerActive, elapsed, loopConn, mainQ,
                 threadRunning, quitReq, workerQ, wpc, notes, cbCount, result,
                 gh, fault>>

\* QEventLoop waitLoop; connect(timeout / peerCountUpdatedSignal /
\* localBlockchainUpdatedSignal -> waitLoop.quit)
init_connect ==
  /\ fault = "none" /\ ctl = "init_connect"
  /\ loopConn' = "init"
  /\ ctl' = "init_exec"
  /\ UNCHANGED <<m_node, node, localH, knownH, timerActive, elapsed, mainQ,
                 threadRunning, quitReq, workerQ, wpc, notes, cbCount, result,
                 gh, fault>>

\* waitLoop.exec(): one queued event is delivered
init_exec ==
  /\ fault = "none" /\ ctl = "init_exec"
  /\ mainQ # <<>>
  /\ LET e == Head(mainQ) IN
       /\ mainQ' = Tail(mainQ)
       /\ IF e.t = "relay"
            THEN /\ notes' = Append(notes, Note(SigInitDone, 0, "relay"))
                 /\ UNCHANGED <<ctl, gh>>
            ELSE /\ ctl' = "init_check"
                 /\ gh' = [gh EXCEPT !.exit = "liveness",
                                     !.early = (elapsed < InitTimerInterval),
                                     !.src = e.s]
                 /\ notes' = notes
  /\ UNCHANGED <<m_node, node, localH, knownH, timerActive, elapsed, loopConn,
                 threadRunning, quitReq, workerQ, wpc, cbCount, result, fault>>

\* waitLoop.exec(): the single-shot timer fires, timeout -> waitLoop.quit
init_timeout ==
  /\ fault = "none" /\ ctl = "init_exec"
  /\ TimerDue
  /\ timerActive' = FALSE
  /\ ctl' = "init_check"
  /\ gh' = [gh EXCEPT !.exit = "timeout"]
  /\ UNCHANGED <<m_node, node, localH, knownH, elapsed, loopConn, mainQ,
                 threadRunning, quitReq, workerQ, wpc, notes, cbCount, result,
                 fault>>

\* variant: the test of the timer is inverted
init_check_inverted ==
  /\ fault = "none" /\ ctl = "init_check"
  /\ loopConn' = "none"
  /\ mainQ' = DropLoopEvents(mainQ)
  /\ timerActive' = FALSE
  /\ IF ~timerActive
       THEN /\ notes' = Append(notes, Note(SigInitDone, 0, "call"))
            /\ result' = [op |-> "init", val |-> TRUE]
            /\ ctl' = "idle"
            /\ UNCHANGED <<m_node, node, gh>>
       ELSE /\ node' = Delete(m_node)
            /\ m_node' = NULL
            /\ gh' = [gh EXCEPT !.rpcDel = TRUE]
            /\ ctl' = "ip_begin"
            /\ UNCHANGED <<notes, result>>
  /\ UNCHANGED <<localH, knownH, elapsed, threadRunning, quitReq, workerQ, wpc,
                 cbCount, fault>>

\* variant: the RPC node is destroyed before the timer is looked at
init_check_deleteFirst ==
  /\ fault = "none" /\ ctl = "init_check"
  /\ loopConn' = "none"
  /\ mainQ' = DropLoopEvents(mainQ)
  /\ timerActive' = FALSE
  /\ node' = Delete(m_node)
  /\ m_node' = NULL
  /\ IF timerActive
       THEN /\ notes' = Append(notes, Note(SigInitDone, 0, "call"))
            /\ result' = [op |-> "init", val |-> TRUE]
            /\ ctl' = "idle"
            /\ UNCHANGED gh
       ELSE /\ gh' = [gh EXCEPT !.rpcDel = TRUE]
            /\ ctl' = "ip_begin"
            /\ UNCHANGED <<notes, result>>
  /\ UNCHANGED <<localH, knownH, elapsed, threadRunning, quitReq, workerQ, wpc,
                 cbCount, fault>>

\* if (initTimer.isActive()) { stop; Q_EMIT nodeInitCompletedSignal; return true; }
\* delete m_node; m_node = nullptr; return initInProcessNode();
init_check ==
  /\ fault = "none" /\ ctl = "init_check"
  /\ loopConn' = "none"
  /\ mainQ' = DropLoopEvents(mainQ)
  /\ timerActive' = FALSE
  /\ IF timerActive
       THEN /\ notes' = Append(notes, Note(SigInitDone, 0, "call"))
            /\ result' = [op |-> "init", val |-> TRUE]
            /\ ctl' = "idle"
            /\ UNCHANGED <<m_node, node, gh>>
       ELSE /\ node' = Delete(m_node)
            /\ m_node' = NULL
            /\ gh' = [gh EXCEPT !.rpcDel = TRUE]
            /\ ctl' = "ip_begin"
            /\ UNCHANGED <<notes, result>>
  /\ UNCHANGED <<localH, knownH, elapsed, threadRunning, quitReq, workerQ, wpc,
                 cbCount, fault>>

\* time passes while initTimer runs
Tick ==
  /\ fault = "none"
  /\ timerActive /\ elapsed < InitTimerInterval
  /\ elapsed' = elapsed + TickMs
  /\ UNCHANGED <<ctl, m_node, node, localH, knownH, timerActive, loopConn,
                 mainQ, threadRunning, quitReq, workerQ, wpc, notes, cbCount,
                 result, gh, fault>>

\* ---------------------------------------------------------------------
\* NodeAdapter::initInProcessNode
\* ---------------------------------------------------------------------

\* variant: only the exit code 1 is taken as a failure
ExecFailed_onlyOne(rc) == rc = 1

\* if (waitLoop.exec() != 0) return false;
ExecFailed(rc) == rc # 0

\* variant: initNodeSignal is connected directly, so that the emit of line 215
\* runs the first statement of start on the controller's thread
initInProcessNode_begin_direct ==
  /\ fault = "none" /\ ctl = "ip_begin"
  /\ IF m_node # NULL
       THEN /\ fault' = "assert"
            /\ UNCHANGED <<ctl, threadRunning, quitReq, gh, m_node, node>>
       ELSE /\ threadRunning' = TRUE
            /\ quitReq' = (threadRunning /\ quitReq)
            /\ m_node' = INPROC
            /\ node' = [node EXCEPT ![INPROC] = "constructed"]
            /\ gh' = [gh EXCEPT !.starts = @ + 1]
            /\ ctl' = "ip_connect"
            /\ fault' = fault
  /\ UNCHANGED <<localH, knownH, timerActive, elapsed, loopConn, mainQ,
                 workerQ, wpc, notes, cbCount, result>>

\* Q_ASSERT(m_node == nullptr); m_nodeInitializerThread.start();
\* Q_EMIT initNodeSignal(&m_node, ...)   (queued to the worker)
initInProcessNode_begin ==
  /\ fault = "none" /\ ctl = "ip_begin"
  /\ IF m_node # NULL
       THEN /\ fault' = "assert"
            /\ UNCHANGED <<ctl, threadRunning, quitReq, workerQ, gh>>
       ELSE /\ threadRunning' = TRUE
            /\ quitReq' = (threadRunning /\ quitReq)
            /\ workerQ' = workerQ + 1
            /\ gh' = [gh EXCEPT !.starts = @ + 1]
            /\ ctl' = "ip_connect"
            /\ fault' = fault
  /\ UNCHANGED <<m_node, node, localH, knownH, timerActive, elapsed, loopConn,
                 mainQ, wpc, notes, cbCount, result>>

\* QEventLoop waitLoop; connect(nodeInitCompletedSignal -> quit,
\* nodeInitFailedSignal -> exit)
initInProcessNode_connect ==
  /\ fault = "none" /\ ctl = "ip_connect"
  /\ loopConn' = "inproc"
  /\ ctl' = "ip_exec"
  /\ UNCHANGED <<m_node, node, localH, knownH, timerActive, elapsed, mainQ,
                 threadRunning, quitReq, workerQ, wpc, notes, cbCount, result,
                 gh, fault>>

\* waitLoop.exec(): one queued event is delivered; on leaving the loop,
\* if (waitLoop.exec() != 0) return false;
initInProcessNode_exec ==
  /\ fault = "none" /\ ctl = "ip_exec"
  /\ mainQ # <<>>
  /\ LET e == Head(mainQ) IN
       IF e.t = "relay"
         THEN /\ notes' = Append(notes, Note(SigInitDone, 0, "relay"))
              /\ mainQ' = Tail(mainQ)
              /\ UNCHANGED <<ctl, gh, result, loopConn>>
         ELSE /\ gh' = [gh EXCEPT !.rc = e.c]
              /\ loopConn' = IF ExecFailed(e.c) THEN "none" ELSE loopConn
              /\ mainQ' = IF ExecFailed(e.c) THEN DropLoopEvents(Tail(mainQ))
                                             ELSE Tail(mainQ)
              /\ ctl' = IF ExecFailed(e.c) THEN "idle" ELSE "ip_local"
              /\ result' = IF ExecFailed(e.c)
                             THEN [op |-> "init", val |-> FALSE] ELSE result
              /\ notes' = notes
  /\ UNCHANGED <<m_node, node, localH, knownH, timerActive, elapsed,
                 threadRunning, quitReq, workerQ, wpc, cbCount, fault>>

\* m_node->getLastKnownBlockHeight() / m_node->getLastLocalBlockHeight()
getLastKnownBlockHeight == knownH

\* variant: the known height is read where the local one is meant
getLastLocalBlockHeight_known == knownH

getLastLocalBlockHeight == localH

\* Q_EMIT localBlockchainUpdatedSignal(getLastLocalBlockHeight());
\* getLastLocalBlockHeight: Q_CHECK_PTR(m_node); m_node->getLastLocalBlockHeight()
initInProcessNode_local ==
  /\ fault = "none" /\ ctl = "ip_local"
  /\ IF m_node = NULL
       THEN fault' = "assert" /\ UNCHANGED <<ctl, notes, gh>>
       ELSE IF ~Live(m_node)
         THEN fault' = "ub" /\ UNCHANGED <<ctl, notes, gh>>
         ELSE /\ notes' = Append(notes, Note(SigLocal, getLastLocalBlockHeight, "call"))
              /\ gh' = [gh EXCEPT !.readOk = @ + 1]
              /\ ctl' = "ip_known"
              /\ fault' = fault
  /\ UNCHANGED <<m_node, node, localH, knownH, timerActive, elapsed, loopConn,
                 mainQ, threadRunning, quitReq, workerQ, wpc, cbCount, result>>

\* Q_EMIT lastKnownBlockHeightUpdatedSignal(getLastKnownBlockHeight()); return true;
initInProcessNode_known ==
  /\ fault = "none" /\ ctl = "ip_known"
  /\ IF m_node = NULL
       THEN fault' = "assert"
            /\ UNCHANGED <<ctl, notes, gh, result, loopConn, mainQ>>
       ELSE IF ~Live(m_node)
         THEN fault' = "ub"
              /\ UNCHANGED <<ctl, notes, gh, result, loopConn, mainQ>>
         ELSE /\ notes' = Append(notes, Note(SigKnown, getLastKnownBlockHeight, "call"))
              /\ gh' = [gh EXCEPT !.readOk = @ + 1]
              /\ result' = [op |-> "init", val |-> TRUE]
              /\ loopConn' = "none"
              /\ mainQ' = DropLoopEvents(mainQ)
              /\ ctl' = "idle"
              /\ fault' = fault
  /\ UNCHANGED <<m_node, node, localH, knownH, timerActive, elapsed,
                 threadRunning, quitReq, workerQ, wpc, cbCount>>

\* ---------------------------------------------------------------------
\* InProcessNodeInitializer (worker thread)
\* ---------------------------------------------------------------------

\* Q_EMIT nodeInitCompletedSignal(): queued to NodeAdapter's signal of the
\* same name (constructor) and, when connected, to waitLoop.quit
EmitInitCompleted(q) ==
  LET q1 == Append(q, Ev("relay", 0, "initCompleted")) IN
  IF loopConn = "inproc" THEN Append(q1, Ev("quit", 0, "initCompleted")) ELSE q1

\* Q_EMIT nodeInitFailedSignal(c): queued, when connected, to waitLoop.exit
EmitInitFailed(q, c) ==
  IF loopConn = "inproc" THEN Append(q, Ev("exit", c, "initFailed")) ELSE q

\* Q_EMIT nodeDeinitCompletedSignal(): queued, when connected, to waitLoop.quit
EmitDeinitCompleted(q) ==
  IF loopConn = "deinit" THEN Append(q, Ev("quit", 0, "deinitCompleted")) ELSE q

\* variant: the catch clause matches nothing
Caught_none == {}

\* the exceptions the catch clauses (start, convertPaymentId) handle
Caught == {"runtime_error"}

ExcKinds == {"runtime_error", "other"}

\* the in-process node's init gives the thread back: after a failed report,
\* or once deinit has been requested
InitReturns ==
  \/ wpc = "start_initfailed"
  \/ wpc = "start_blocked" /\ node[INPROC] = "stopping"

\* the queued initNodeSignal reaches start:
\* (*_node) = createInprocessNode(...)   (outside the try block)
start_create ==
  /\ fault = "none" /\ wpc = "idle"
  /\ threadRunning /\ workerQ > 0
  /\ workerQ' = workerQ - 1
  /\ \/ /\ m_node' = INPROC
        /\ node' = [node EXCEPT ![INPROC] = "constructed"]
        /\ \E l \in Values, k \in Values : localH' = l /\ knownH' = k
        /\ wpc' = "start_init"
        /\ fault' = fault
     \/ /\ fault' = "uncaught"
        /\ UNCHANGED <<m_node, node, localH, knownH, wpc>>
  /\ UNCHANGED <<ctl, timerActive, elapsed, loopConn, mainQ, threadRunning,
                 quitReq, notes, cbCount, result, gh>>

\* try { (*_node)->init(callback) }: the callback reports success ...
start_init_ok ==
  /\ fault = "none" /\ wpc = "start_init"
  /\ node' = [node EXCEPT ![INPROC] = "inited"]
  /\ mainQ' = EmitInitCompleted(mainQ)
  /\ gh' = [gh EXCEPT !.wsig = "completed"]
  /\ wpc' = "start_blocked"
  /\ UNCHANGED <<ctl, m_node, localH, knownH, timerActive, elapsed, loopConn,
                 threadRunning, quitReq, workerQ, notes, cbCount, result, fault>>

\* ... or the callback reports the error code c
start_init_err ==
  /\ fault = "none" /\ wpc = "start_init"
  /\ \E c \in ErrCodes :
       /\ mainQ' = EmitInitFailed(mainQ, c)
       /\ gh' = [gh EXCEPT !.wsig = "failed", !.wcode = c]
  /\ wpc' = "start_initfailed"
  /\ UNCHANGED <<ctl, m_node, node, localH, knownH, timerActive, elapsed,
                 loopConn, threadRunning, quitReq, workerQ, notes, cbCount,
                 result, fault>>

\* ... or init throws
start_init_throw ==
  /\ fault = "none" /\ wpc = "start_init"
  /\ \E x \in ExcKinds :
       IF x \in Caught
         THEN /\ wpc' = "start_catch"
              /\ gh' = [gh EXCEPT !.wthrow = TRUE]
              /\ fault' = fault
         ELSE /\ fault' = "uncaught"
              /\ gh' = [gh EXCEPT !.wthrow = TRUE]
              /\ wpc' = wpc
  /\ UNCHANGED <<ctl, m_node, node, localH, knownH, timerActive, elapsed,
                 loopConn, mainQ, threadRunning, quitReq, workerQ, notes,
                 cbCount, result>>

\* catch (std::runtime_error&) { Q_EMIT nodeInitFailedSignal(INTERNAL_WALLET_ERROR);
\*                               return; }
start_catch ==
  /\ fault = "none" /\ wpc = "start_catch"
  /\ mainQ' = EmitInitFailed(mainQ, INTERNAL_WALLET_ERROR)
  /\ gh' = [gh EXCEPT !.wsig = "failed", !.wcode = INTERNAL_WALLET_ERROR]
  /\ wpc' = "idle"
  /\ UNCHANGED <<ctl, m_node, node, localH, knownH, timerActive, elapsed,
                 loopConn, threadRunning, quitReq, workerQ, notes, cbCount,
                 result, fault>>

\* variant: init returns as soon as its callback has run, whatever it reported
start_init_return_early ==
  /\ fault = "none"
  /\ wpc \in {"start_initfailed", "start_blocked"}
  /\ wpc' = "start_delete"
  /\ UNCHANGED <<ctl, m_node, node, localH, knownH, timerActive, elapsed,
                 loopConn, mainQ, threadRunning, quitReq, workerQ, notes,
                 cbCount, result, gh, fault>>

\* (*_node)->init(...) returns
start_init_return ==
  /\ fault = "none"
  /\ InitReturns
  /\ wpc' = "start_delete"
  /\ UNCHANGED <<ctl, m_node, node, localH, knownH, timerActive, elapsed,
                 loopConn, mainQ, threadRunning, quitReq, workerQ, notes,
                 cbCount, result, gh, fault>>

\* delete *_node;
start_delete ==
  /\ fault = "none" /\ wpc = "start_delete"
  /\ node' = Delete(m_node)
  /\ wpc' = "start_null"
  /\ UNCHANGED <<ctl, m_node, localH, knownH, timerActive, elapsed, loopConn,
                 mainQ, threadRunning, quitReq, workerQ, notes, cbCount,
                 result, gh, fault>>

\* *_node = nullptr;
start_null ==
  /\ fault = "none" /\ wpc = "start_null"
  /\ m_node' = NULL
  /\ wpc' = "start_emit"
  /\ UNCHANGED <<ctl, node, localH, knownH, timerActive, elapsed, loopConn,
                 mainQ, threadRunning, quitReq, workerQ, notes, cbCount,
                 result, gh, fault>>

\* Q_EMIT nodeDeinitCompletedSignal();
start_emit ==
  /\ fault = "none" /\ wpc = "start_emit"
  /\ mainQ' = EmitDeinitCompleted(mainQ)
  /\ wpc' = "idle"
  /\ UNCHANGED <<ctl, m_node, node, localH, knownH, timerActive, elapsed,
                 loopConn, threadRunning, quitReq, workerQ, notes, cbCount,
                 result, gh, fault>>

\* the worker's event loop honours quit() once it is back in the loop
thread_finish ==
  /\ fault = "none" /\ wpc = "idle"
  /\ threadRunning /\ quitReq
  /\ threadRunning' = FALSE
  /\ quitReq' = FALSE
  /\ UNCHANGED <<ctl, m_node, node, localH, knownH, timerActive, elapsed,
                 loopConn, mainQ, workerQ, wpc, notes, cbCount, result, gh,
                 fault>>

\* ---------------------------------------------------------------------
\* INodeCallback: NodeAdapter::peerCountUpdated / localBlockchainUpdated /
\* lastKnownBlockHeightUpdated, called on the node's thread
\* ---------------------------------------------------------------------

\* variant: lastKnownBlockHeightUpdated emits localBlockchainUpdatedSignal
Relayed_swapped(sig, v) ==
  Note(IF sig = SigKnown THEN SigLocal ELSE sig, v, "callback")

\* the signal each callback re-emits, with the value it was given
Relayed(sig, v) == Note(sig, v, "callback")

NodeCallback ==
  /\ fault = "none"
  /\ cbCount < MaxCallbacks
  /\ \E k \in Kinds, sig \in CallbackKinds, v \in Values :
       /\ node[k] \in {"inited", "stopping"}
       /\ gh' = [gh EXCEPT !.cbs = Append(@, <<sig, v>>)]
       /\ notes' = Append(notes, Relayed(sig, v))
       /\ localH' = IF sig = SigLocal THEN v ELSE localH
       /\ knownH' = IF sig = SigKnown THEN v ELSE knownH
       /\ mainQ' = IF loopConn = "init" /\ sig \in InitQuitSignals
                     THEN Append(mainQ, Ev("quit", 0, sig)) ELSE mainQ
  /\ cbCount' = cbCount + 1
  /\ UNCHANGED <<ctl, m_node, node, timerActive, elapsed, loopConn,
                 threadRunning, quitReq, workerQ, wpc, result, fault>>

\* ---------------------------------------------------------------------
\* NodeAdapter::deinit
\* ---------------------------------------------------------------------

\* if (m_node != nullptr) { if (m_nodeInitializerThread.isRunning()) {...}
\*                          else { delete m_node; m_node = nullptr; } }
deinit_begin ==
  /\ fault = "none" /\ ctl = "idle"
  /\ notes' = <<>> /\ cbCount' = 0
  /\ IF m_node = NULL
       THEN /\ gh' = [NoHistory EXCEPT !.path = "noop",
                                       !.runAtCall = threadRunning]
            /\ result' = [op |-> "deinit", val |-> TRUE]
            /\ UNCHANGED <<ctl, m_node, node>>
       ELSE IF threadRunning
         THEN /\ gh' = [NoHistory EXCEPT !.path = "worker", !.atCall = m_node,
                                         !.runAtCall = TRUE]
              /\ result' = NoResult
              /\ ctl' = "stop_check"
              /\ UNCHANGED <<m_node, node>>
         ELSE /\ gh' = [NoHistory EXCEPT !.path = "direct", !.atCall = m_node]
              /\ node' = Delete(m_node)
              /\ m_node' = NULL
              /\ result' = [op |-> "deinit", val |-> TRUE]
              /\ ctl' = ctl
  /\ UNCHANGED <<localH, knownH, timerActive, elapsed, loopConn, mainQ,
                 threadRunning, quitReq, workerQ, wpc, fault>>

\* m_nodeInitializer->stop(&m_node), called on the controller's thread:
\* Q_CHECK_PTR(*_node);
stop_check ==
  /\ fault = "none" /\ ctl = "stop_check"
  /\ gh' = [gh EXCEPT !.stopCalls = @ + 1]
  /\ IF m_node = NULL
       THEN fault' = "assert" /\ ctl' = ctl
       ELSE fault' = fault /\ ctl' = "stop_deinit"
  /\ UNCHANGED <<m_node, node, localH, knownH, timerActive, elapsed, loopConn,
                 mainQ, threadRunning, quitReq, workerQ, wpc, notes, cbCount,
                 result>>

\* (*_node)->deinit();
stop_deinit ==
  /\ fault = "none" /\ ctl = "stop_deinit"
  /\ IF Live(m_node)
       THEN /\ node' = [node EXCEPT ![m_node] = "stopping"]
            /\ ctl' = "deinit_connect"
            /\ fault' = fault
       ELSE \/ fault' = "ub" /\ UNCHANGED <<node, ctl>>
            \/ fault' = fault /\ ctl' = "deinit_connect" /\ node' = node
  /\ UNCHANGED <<m_node, localH, knownH, timerActive, elapsed, loopConn, mainQ,
                 threadRunning, quitReq, workerQ, wpc, notes, cbCount, result,
                 gh>>

\* QEventLoop waitLoop; connect(nodeDeinitCompletedSignal -> quit, queued)
deinit_connect ==
  /\ fault = "none" /\ ctl = "deinit_connect"
  /\ loopConn' = "deinit"
  /\ gh' = [gh EXCEPT !.waited = TRUE]
  /\ ctl' = "deinit_exec"
  /\ UNCHANGED <<m_node, node, localH, knownH, timerActive, elapsed, mainQ,
                 threadRunning, quitReq, workerQ, wpc, notes, cbCount, result,
                 fault>>

\* waitLoop.exec(): one queued event is delivered
deinit_exec ==
  /\ fault = "none" /\ ctl = "deinit_exec"
  /\ mainQ # <<>>
  /\ LET e == Head(mainQ) IN
       /\ mainQ' = Tail(mainQ)
       /\ IF e.t = "relay"
            THEN /\ notes' = Append(notes, Note(SigInitDone, 0, "relay"))
                 /\ UNCHANGED <<ctl, gh>>
            ELSE /\ ctl' = "deinit_quit"
                 /\ gh' = [gh EXCEPT !.gotDeinit = TRUE]
                 /\ notes' = notes
  /\ UNCHANGED <<m_node, node, localH, knownH, timerActive, elapsed, loopConn,
                 threadRunning, quitReq, workerQ, wpc, cbCount, result, fault>>

\* m_nodeInitializerThread.quit();
deinit_quit ==
  /\ fault = "none" /\ ctl = "deinit_quit"
  /\ quitReq' = TRUE
  /\ ctl' = "deinit_wait"
  /\ UNCHANGED <<m_node, node, localH, knownH, timerActive, elapsed, loopConn,
                 mainQ, threadRunning, workerQ, wpc, notes, cbCount, result,
                 gh, fault>>

\* m_nodeInitializerThread.wait(); and deinit returns
deinit_wait ==
  /\ fault = "none" /\ ctl = "deinit_wait"
  /\ ~threadRunning
  /\ loopConn' = "none"
  /\ mainQ' = DropLoopEvents(mainQ)
  /\ result' = [op |-> "deinit", val |-> TRUE]
  /\ ctl' = "idle"
  /\ UNCHANGED <<m_node, node, localH, knownH, timerActive, elapsed,
                 threadRunning, quitReq, workerQ, wpc, notes, cbCount, gh,
                 fault>>

\* ---------------------------------------------------------------------
\* The read accessors (called on the controller's thread between the calls
\* of init and deinit)
\* ---------------------------------------------------------------------

\* variant: the checks are compiled out (QT_NO_DEBUG)
Q_CHECK_PTR_off(p) == TRUE

\* Q_CHECK_PTR(m_node) / Q_ASSERT(m_node != nullptr): passes iff p is not null
Q_CHECK_PTR(p) == p # NULL

\* the accessors that check the handle and return what the node returns
Accessors == {"getPeerCount", "extractPaymentId", "createWallet",
              "getLastKnownBlockHeight", "getLastLocalBlockHeight",
              "getLastLocalBlockTimestamp"}

\* what the node answers; only the two heights are part of the model
NodeRead(a) ==
  IF a = "getLastKnownBlockHeight" THEN getLastKnownBlockHeight
  ELSE IF a = "getLastLocalBlockHeight" THEN getLastLocalBlockHeight
  ELSE 0

\* one accessor call recorded in the history of the current call
Accessed(a, arg, ops, ret, n, str) ==
  [gh EXCEPT !.acc = a, !.arg = arg, !.nodeOps = ops, !.returned = ret,
             !.retn = n, !.rets = str]

\* getPeerCount, extractPaymentId, createWallet, getLastKnownBlockHeight,
\* getLastLocalBlockHeight, getLastLocalBlockTimestamp:
\* Q_CHECK_PTR(m_node); return m_node->...();
read_accessor ==
  /\ fault = "none" /\ ctl = "idle"
  /\ \E a \in Accessors :
       IF ~Q_CHECK_PTR(m_node)
         THEN fault' = "assert" /\ gh' = Accessed(a, "", 0, FALSE, 0, "")
         ELSE IF ~Live(m_node)
           THEN \/ fault' = "ub" /\ gh' = Accessed(a, "", 0, FALSE, 0, "")
                \/ /\ fault' = fault
                   /\ \E v \in Values : gh' = Accessed(a, "", 0, TRUE, v, "")
           ELSE /\ fault' = fault
                /\ gh' = Accessed(a, "", 1, TRUE, NodeRead(a), "")
  /\ UNCHANGED <<ctl, m_node, node, localH, knownH, timerActive, elapsed,
                 loopConn, mainQ, threadRunning, quitReq, workerQ, wpc, notes,
                 cbCount, result>>

\* the strings convertPaymentId is called with
PaymentIds == {"00ff", "ab12", "xyz"}

\* the node's convertPaymentId: a well-formed id is turned into the extra
\* nonce that carries it, a malformed one raises std::runtime_error
NodeConvertPaymentId(s) ==
  IF s = "00ff" THEN [ok |-> TRUE, val |-> "nonce(00ff)"]
  ELSE IF s = "ab12" THEN [ok |-> TRUE, val |-> "nonce(ab12)"]
  ELSE [ok |-> FALSE, val |-> "runtime_error"]

\* Q_CHECK_PTR(m_node);
\* try { return m_node->convertPaymentId(s); } catch (std::runtime_error&) {}
\* return std::string();
convertPaymentId ==
  /\ fault = "none" /\ ctl = "idle"
  /\ \E s \in PaymentIds :
       LET a == "convertPaymentId"
           r == NodeConvertPaymentId(s)
       IN IF ~Q_CHECK_PTR(m_node)
            THEN fault' = "assert" /\ gh' = Accessed(a, s, 0, FALSE, 0, "")
            ELSE IF ~Live(m_node)
              THEN \/ fault' = "ub" /\ gh' = Accessed(a, s, 0, FALSE, 0, "")
                   \/ fault' = fault /\ gh' = Accessed(a, s, 0, TRUE, 0, "")
              ELSE IF r.ok
                THEN fault' = fault /\ gh' = Accessed(a, s, 1, TRUE, 0, r.val)
                ELSE IF r.val \in Caught
                  THEN fault' = fault /\ gh' = Accessed(a, s, 1, TRUE, 0, "")
                  ELSE fault' = "uncaught"
                       /\ gh' = Accessed(a, s, 1, FALSE, 0, "")
  /\ UNCHANGED <<ctl, m_node, node, localH, knownH, timerActive, elapsed,
                 loopConn, mainQ, threadRunning, quitReq, workerQ, wpc, notes,
                 cbCount, result>>

Next ==
  \/ init_begin \/ init_nodeinit \/ init_connect \/ init_exec \/ init_timeout
  \/ init_check \/ Tick
  \/ initInProcessNode_begin \/ initInProcessNode_connect
  \/ initInProcessNode_exec \/ initInProcessNode_local
  \/ initInProcessNode_known
  \/ start_create \/ start_init_ok \/ start_init_err \/ start_init_throw
  \/ start_catch \/ start_init_return \/ start_delete \/ start_null
  \/ start_emit \/ thread_finish
  \/ NodeCallback
  \/ deinit_begin \/ stop_check \/ stop_deinit \/ deinit_connect
  \/ deinit_exec \/ deinit_quit \/ deinit_wait

Spec == Init /\ [][Next]_vars

\* The same machine with the read accessors called between the calls of init
\* and deinit; the callbacks followed per call are bounded separately
NodeCallbackFew == cbCount < MaxReadCallbacks /\ NodeCallback

AccessNext ==
  \/ init_begin \/ init_nodeinit \/ init_connect \/ init_exec \/ init_timeout
  \/ init_check \/ Tick
  \/ initInProcessNode_begin \/ initInProcessNode_connect
  \/ initInProcessNode_exec \/ initInProcessNode_local
  \/ initInProcessNode_known
  \/ start_create \/ start_init_ok \/ start_init_err \/ start_init_throw
  \/ start_catch \/ start_init_return \/ start_delete \/ start_null
  \/ start_emit \/ thread_finish
  \/ NodeCallbackFew
  \/ deinit_begin \/ stop_check \/ stop_deinit \/ deinit_connect
  \/ deinit_exec \/ deinit_quit \/ deinit_wait
  \/ read_accessor \/ convertPaymentId

AccessSpec == Init /\ [][AccessNext]_vars

\* ---------------------------------------------------------------------
\* Properties
\* ---------------------------------------------------------------------

\* the nodes constructed and not yet destroyed
LiveNodes(nd) == {k \in Kinds : nd[k] # "absent"}

\* the step on which init returns v / on which deinit returns
InitReturned(v) == result' # result /\ result'.op = "init" /\ result'.val = v
DeinitReturned  == result' # result /\ result'.op = "deinit"

\* the signals one controller call emitted itself, in order
ByCall(ns) == SelectSeq(ns, LAMBDA n : n.by = "call")

C2_DeinitLeavesNull ==
  [][DeinitReturned => m_node' = NULL]_vars

CallbackStep(sig) ==
  /\ Len(notes') = Len(notes) + 1
  /\ notes'[Len(notes')].by = "callback"
  /\ notes'[Len(notes')].sig = sig

\* C4 as stated: each of the three callbacks, relayed while init's wait loop
\* is connected, queues the quit that ends the loop
C4_AnyCallbackEndsWait ==
  [][\A sig \in CallbackKinds :
       (loopConn = "init" /\ CallbackStep(sig)) =>
          mainQ' = Append(mainQ, Ev("quit", 0, sig))]_vars

\* C4 amended: peer-count-updated and local-blockchain-updated queue the quit
\* that ends init's wait loop, last-known-block-height-updated queues nothing;
\* a wait loop ended by a queued signal was ended by one of those two, and
\* init then returns true
C4_PeerAndLocalEndWait ==
  /\ [][\A sig \in CallbackKinds :
          (loopConn = "init" /\ CallbackStep(sig)) =>
             mainQ' = IF sig \in {SigPeer, SigLocal}
                        THEN Append(mainQ, Ev("quit", 0, sig)) ELSE mainQ]_vars
  /\ [](gh.exit = "liveness" =>
          /\ gh.src \in {SigPeer, SigLocal}
          /\ ctl \in {"init_check", "idle"}
          /\ ctl = "idle" => result = [op |-> "init", val |-> TRUE])

\* init has returned true on a local-blockchain-updated signal
C4_Witness ==
  /\ result = [op |-> "init", val |-> TRUE]
  /\ gh.exit = "liveness" /\ gh.src = SigLocal

\* C5: when the timer ends init's wait loop, init destroys the RPC node,
\* nulls m_node and runs initInProcessNode (one initNodeSignal); the value
\* returned is true exactly when the worker emitted nodeInitCompletedSignal
\* and false exactly when it emitted nodeInitFailedSignal(code), whose code is
\* the wait loop's exit code
C5_TimeoutFallsBack ==
  /\ ctl = "ip_begin" =>
       /\ gh.exit = "timeout" /\ gh.rpcDel
       /\ m_node = NULL /\ node[RPC] = "absent"
  /\ (gh.exit = "timeout" /\ ctl \notin {"init_check", "ip_begin"}) =>
       /\ gh.rpcDel
       /\ gh.starts = 1
  /\ (result.op = "init" /\ gh.exit = "timeout") =>
       /\ result.val <=> gh.wsig = "completed"
       /\ ~result.val <=> (gh.wsig = "failed" /\ gh.rc = gh.wcode
                            /\ gh.wcode \in ErrCodes \cup {INTERNAL_WALLET_ERROR})

\* init has returned false after the timeout, on the worker's init-failed
\* carrying the internal-error code
C5_Witness ==
  /\ result = [op |-> "init", val |-> FALSE]
  /\ gh.exit = "timeout"
  /\ gh.wsig = "failed" /\ gh.wcode = INTERNAL_WALLET_ERROR

\* the step on which a controller function emits sig itself
CallStep(sig) ==
  /\ Len(notes') = Len(notes) + 1
  /\ notes'[Len(notes')].by = "call"
  /\ notes'[Len(notes')].sig = sig

\* the height signals a call emitted itself, in order
HeightSigs(ns) ==
  LET hs == SelectSeq(ByCall(ns), LAMBDA n : n.sig \in {SigLocal, SigKnown})
  IN  [i \in 1..Len(hs) |-> hs[i].sig]

\* C6 as stated: when the worker's init fails (callback or exception),
\* initInProcessNode returns false with m_node null and without having
\* emitted a height signal
C6_FailureLeavesNoHandle ==
  [][InitReturned(FALSE) =>
       /\ gh'.wsig = "failed"
       /\ m_node' = NULL
       /\ HeightSigs(notes') = <<>>]_vars

\* C7 as stated: no exception leaves start, and an exception raised while the
\* node is created or initialised ends in init-failed(INTERNAL_WALLET_ERROR)
C7_ExceptionsBecomeInitFailed ==
  /\ fault # "uncaught"
  /\ (gh.wthrow /\ wpc = "idle") =>
       (gh.wsig = "failed" /\ gh.wcode = INTERNAL_WALLET_ERROR)

C9_RpcDeinitIsDirect ==
  gh.atCall = RPC =>
     /\ gh.path = "direct"
     /\ gh.stopCalls = 0
     /\ ~gh.waited
     /\ ctl = "idle" /\ result.op = "deinit"
     /\ m_node = NULL /\ node[RPC] = "absent"

\* ---------------------------------------------------------------------
\* Fair scheduling: both threads keep running, time keeps passing.  Nothing
\* is assumed of the caller (init_begin, deinit_begin), of what the node's
\* init reports, or of its callbacks.
\* ---------------------------------------------------------------------
ControllerStep ==
  \/ init_nodeinit \/ init_connect \/ init_exec \/ init_timeout \/ init_check
  \/ initInProcessNode_begin \/ initInProcessNode_connect
  \/ initInProcessNode_exec \/ initInProcessNode_local
  \/ initInProcessNode_known
  \/ stop_check \/ stop_deinit \/ deinit_connect \/ deinit_exec
  \/ deinit_quit \/ deinit_wait

WorkerStep ==
  \/ start_create \/ start_catch \/ start_init_return \/ start_delete
  \/ start_null \/ start_emit \/ thread_finish

FairSpec ==
  Spec /\ WF_vars(ControllerStep) /\ WF_vars(WorkerStep) /\ WF_vars(Tick)

\* C10 as stated: deinit called on the in-process node that the worker keeps
\* running returns eventually; it left its wait loop on deinit-completed and
\* the worker thread has finished when it returns
C10_InprocDeinitReturns ==
  /\ (ctl = "stop_check" /\ gh.atCall = INPROC /\ wpc = "start_blocked")
        ~> (ctl = "idle" /\ result.op = "deinit")
  /\ []((result.op = "deinit" /\ gh.path = "worker") =>
           (gh.stopCalls = 1 /\ gh.gotDeinit /\ ~threadRunning))

\* what a call of deinit that finds nothing to do leaves alone: the handle
\* slot, the nodes, the timer, the wait-loop connections, both event queues
\* and the worker thread; it emits no signal, calls no stop, enters no wait
\* loop and has returned when the step ends
DeinitNoOp ==
  /\ UNCHANGED <<ctl, m_node, node, localH, knownH, timerActive, elapsed,
                 loopConn, mainQ, threadRunning, quitReq, workerQ, wpc, fault>>
  /\ notes' = <<>>
  /\ gh'.stopCalls = 0 /\ ~gh'.waited
  /\ result'.op = "deinit"

\* C11 as stated: deinit called with m_node null is a no-op, so deinit called
\* right after deinit has returned is a no-op too
C11_DeinitIdempotent ==
  /\ [][(m_node = NULL /\ deinit_begin) => DeinitNoOp]_vars
  /\ [][(result.op = "deinit" /\ deinit_begin) => DeinitNoOp]_vars

\* the step on which a node is constructed: createRpcNode in init (line 155)
\* or createInprocessNode in start (line 79)
NodeConstructed ==
  \/ init_begin /\ ctl' = "init_nodeinit"
  \/ start_create /\ wpc' = "start_init"

AccessorCalled == read_accessor \/ convertPaymentId

\* C13: a read accessor called while m_node is null ends in the failed
\* assertion: no node operation is invoked and nothing is returned
C13_NullHandleAsserts ==
  [][(m_node = NULL /\ AccessorCalled) =>
       /\ fault' = "assert"
       /\ gh'.nodeOps = 0
       /\ ~gh'.returned
       /\ UNCHANGED <<m_node, node>>]_vars

\* getPeerCount was called after a failed init had left no handle, and the
\* assertion stopped it
C13_Witness ==
  /\ fault = "assert" /\ gh.acc = "getPeerCount"
  /\ m_node = NULL
  /\ result = [op |-> "init", val |-> FALSE]

C15_InprocInitReturns ==
  (ctl \in {"ip_connect", "ip_exec"} /\ gh.wsig \in {"completed", "failed"})
     ~> (ctl = "idle" /\ result.op = "init")

\* the controller's next statement reads, tests or writes m_node: m_node->init
\* (161), delete m_node (175), Q_ASSERT (211), the height reads (223, 224),
\* stop's Q_CHECK_PTR(*_node) and (*_node)->deinit() (103, 104)
ControllerAtNode ==
  /\ fault = "none"
  /\ \/ ctl \in {"init_nodeinit", "ip_begin", "ip_local", "ip_known",
                  "stop_check", "stop_deinit"}
     \/ ctl = "init_check" /\ ~timerActive

\* the worker's next statement writes m_node or destroys what it points to:
\* the assignment of line 79, delete *_node (97), *_node = nullptr (98)
WorkerAtNode ==
  /\ fault = "none"
  /\ \/ wpc \in {"start_delete", "start_null"}
     \/ wpc = "idle" /\ threadRunning /\ workerQ > 0

\* C16 as stated: in no reachable state is the controller about to read or
\* write m_node while the worker is about to write it
C16_NoRacingAccess == ~(ControllerAtNode /\ WorkerAtNode)

\* the step on which start begins to run (it constructs the in-process node)
\* and the step on which stop calls the node's deinit
StartRuns == node[INPROC] = "absent" /\ node'[INPROC] = "constructed"
StopRuns  == \E k \in Kinds : node[k] # "stopping" /\ node'[k] = "stopping"

\* start runs on the worker in answer to one queued initNodeSignal
StartIsQueued ==
  StartRuns => /\ threadRunning /\ workerQ > 0
               /\ workerQ' = workerQ - 1
               /\ wpc = "idle" /\ wpc' = "start_init"
               /\ ctl' = ctl

StartEnds      == wpc # "idle" /\ wpc' = "idle"
StartReaches(l) == wpc # l /\ wpc' = l

\* the order of start's last statements: the node is destroyed after init has
\* reported and returned, the slot is nulled after that, and deinit-completed
\* is emitted last
StartCleanupOrdered ==
  /\ StartReaches("start_delete") => wpc \in {"start_initfailed", "start_blocked"}
  /\ StartReaches("start_null") =>
        wpc = "start_delete" /\ node'[INPROC] = "absent"
  /\ StartReaches("start_emit") =>
        wpc = "start_null" /\ m_node' = NULL /\ node'[INPROC] = "absent"

\* C18 as stated: every invocation of start, however the node's init ended,
\* returns through the emission of deinit-completed with the node destroyed,
\* after the slot was nulled and after init-completed or init-failed
C18_StartAlwaysCleansUp ==
  [][/\ StartEnds => (wpc = "start_emit" /\ node'[INPROC] = "absent")
     /\ StartCleanupOrdered]_vars

\* the serving state: init has returned true and no call has been made since
\* (the accessors leave result alone)
Connected == ctl = "idle" /\ result = [op |-> "init", val |-> TRUE]

ByCallback(ns) == SelectSeq(ns, LAMBDA n : n.by = "callback")

====
